---- MODULE Spec2Model ----
(***************************************************************************)
(* A model of Focal.focal (src/focal.py): the FoCal greedy spike-selection *)
(* loop over the 2x2 composite tile, its overlap corrector                 *)
(* (adjust_with_correlation) and the coordinate utilities.                 *)
(*                                                                         *)
(* Floating-point values are records: a finite value carries an integer,   *)
(* and -inf, +inf and nan follow the IEEE rules of numpy for subtraction,  *)
(* multiplication and comparison.  Arithmetic on finite values is exact    *)
(* (no rounding, no overflow to infinity).                                 *)
(***************************************************************************)
EXTENDS Integers, Sequences, FiniteSets, TLC

\* ------------------------------------------------------------------ bounds
\* the shape (Height, Width) of one response map
Height == 2
Width == 3
\* the correlation kernels are (2 * HalfCorr + 1) squared
HalfCorr == 1
\* spikes_per_unit is a multiple of 1 / SpuDen
SpuDen == 3
\* the values of the nonzero map cells, and one slot per nonzero cell
MapValues == {1, 2}
NonzeroSlots == {1, 2}

\* the four ganglion-cell layers (len(spike_images), big_coords has 4 entries)
NumImages == 4

\* ------------------------------------------------------- floating point
Fin(n) == [k |-> "fin", v |-> n]
NegInf == [k |-> "ninf", v |-> 0]
PosInf == [k |-> "pinf", v |-> 0]
NaN == [k |-> "nan", v |-> 0]

IsFinite(a) == a.k = "fin"

\* a == b of numpy: never true of nan
FEq(a, b) == a.k # "nan" /\ b.k # "nan" /\ a = b

\* a <= b of numpy: never true of nan
FLe(a, b) ==
    /\ a.k # "nan"
    /\ b.k # "nan"
    /\ \/ a.k = "ninf"
       \/ b.k = "pinf"
       \/ a.k = "fin" /\ b.k = "fin" /\ a.v <= b.v

\* a - b
FSub(a, b) ==
    IF a.k = "nan" \/ b.k = "nan" THEN NaN
    ELSE IF a.k = "fin" /\ b.k = "fin" THEN Fin(a.v - b.v)
    ELSE IF a.k = "fin" THEN (IF b.k = "pinf" THEN NegInf ELSE PosInf)
    ELSE IF a.k = b.k THEN NaN
    ELSE a

Sign(a) ==
    IF a.k = "pinf" THEN 1
    ELSE IF a.k = "ninf" THEN -1
    ELSE IF a.v > 0 THEN 1
    ELSE IF a.v < 0 THEN -1
    ELSE 0

\* a * b
FMul(a, b) ==
    IF a.k = "nan" \/ b.k = "nan" THEN NaN
    ELSE IF a.k = "fin" /\ b.k = "fin" THEN Fin(a.v * b.v)
    ELSE IF Sign(a) * Sign(b) = 0 THEN NaN
    ELSE IF Sign(a) * Sign(b) > 0 THEN PosInf
    ELSE NegInf

Min2(a, b) == IF a <= b THEN a ELSE b
Max2(a, b) == IF a >= b THEN a ELSE b
SetMin(S) == CHOOSE x \in S : \A y \in S : x <= y

\* faulty variant of TruncDiv: the quotient rounded up
TruncDivRoundsUp(n, d) == IF n >= 0 THEN (n + d - 1) \div d ELSE -((-n) \div d)

\* numpy.int(x) of the quotient n / d, d > 0: truncation towards zero
TruncDiv(n, d) == IF n >= 0 THEN n \div d ELSE -((-n) \div d)

\* ------------------------------------------------------------ shapes
img_shape == <<Height, Width>>
big_shape == <<Height * 2, Width * 2>>
big_coords == <<<<0, 0>>, <<0, Width>>, <<Height, 0>>, <<Height, Width>>>>

Rows(shape) == 0 .. (shape[1] - 1)
Cols(shape) == 0 .. (shape[2] - 1)

\* ------------------------------------------------- coordinate utilities
\* idx2coord of the package's __init__: (row, col) of a flat row-major index
idx2coord(idx, width) == <<idx \div width, idx % width>>

\* numpy.unravel_index(idx, shape) of a 2D shape
unravel_index(idx, shape) == <<idx \div shape[2], idx % shape[2]>>

\* faulty variant of local_coords_to_global_idx: the row and column offsets swapped
local_coords_to_global_idx_swapped(coords, a_cell_type, local_img_shape, global_img_shape) ==
    LET row_add == a_cell_type % 2
        col_add == a_cell_type \div 2
        global_coords == <<coords[1] + row_add * local_img_shape[1],
                           coords[2] + col_add * local_img_shape[2]>>
    IN  global_coords[1] * global_img_shape[2] + global_coords[2]

local_coords_to_global_idx(coords, a_cell_type, local_img_shape, global_img_shape) ==
    LET row_add == a_cell_type \div 2
        col_add == a_cell_type % 2
        global_coords == <<coords[1] + row_add * local_img_shape[1],
                           coords[2] + col_add * local_img_shape[2]>>
    IN  global_coords[1] * global_img_shape[2] + global_coords[2]

\* faulty variant of global_to_single_coords: the column reduced by the height
global_to_single_coords_by_height(coords, single_shape) ==
    LET row_count == coords[1] \div single_shape[1]
        col_count == coords[2] \div single_shape[1]
    IN  <<coords[1] - single_shape[1] * row_count,
          coords[2] - single_shape[1] * col_count>>

global_to_single_coords(coords, single_shape) ==
    LET row_count == coords[1] \div single_shape[1]
        col_count == coords[2] \div single_shape[2]
    IN  <<coords[1] - single_shape[1] * row_count,
          coords[2] - single_shape[2] * col_count>>

\* faulty variant of cell_type_from_global_coords: layers numbered column-major
cell_type_from_global_coords_column_major(coords, single_shape) ==
    LET row_type == coords[1] \div single_shape[1]
        col_type == coords[2] \div single_shape[2]
    IN  row_type + col_type * 2

cell_type_from_global_coords(coords, single_shape) ==
    LET row_type == coords[1] \div single_shape[1]
        col_type == coords[2] \div single_shape[2]
    IN  row_type * 2 + col_type

\* ------------------------------------------------------- the selection
\* faulty variant of argmax: the last index that holds the maximum
argmax_last(img, shape) ==
    LET idxs == 0 .. (shape[1] * shape[2] - 1)
        at(i) == img[i \div shape[2]][i % shape[2]]
        nans == {i \in idxs : at(i).k = "nan"}
        vals == {at(i) : i \in idxs}
        maxv == CHOOSE v \in vals : \A u \in vals : FLe(u, v)
    IN  IF nans # {} THEN SetMin(nans)
        ELSE 0 - SetMin({0 - i : i \in {j \in idxs : at(j) = maxv}})

\* numpy.argmax over the flattened (row-major) image: numpy scans it keeping
\* the first element that no earlier one is >= to, and stops at a nan.  The
\* result is the first nan if there is one, otherwise the first index that
\* holds the maximum.
argmax(img, shape) ==
    LET idxs == 0 .. (shape[1] * shape[2] - 1)
        at(i) == img[i \div shape[2]][i % shape[2]]
        nans == {i \in idxs : at(i).k = "nan"}
        vals == {at(i) : i \in idxs}
        maxv == CHOOSE v \in vals : \A u \in vals : FLe(u, v)
    IN  IF nans # {} THEN SetMin(nans)
        ELSE SetMin({i \in idxs : at(i) = maxv})

\* the test of line 108: max_val == inf or max_val == -inf or max_val == nan
WrongMaxValue(v) == FEq(v, PosInf) \/ FEq(v, NegInf) \/ FEq(v, NaN)

\* ------------------------------------------------- the overlap corrector
\* faulty variant of CorrectionWindow: the window clipped to the whole image, not to
\* the quadrant
CorrectionWindowUnclipped(shape, correlation_width, max_idx) ==
    LET half_correlation_width == correlation_width \div 2
        rc == idx2coord(max_idx, shape[2])
        row == rc[1]
        col == rc[2]
        max_img_row == Min2(shape[1], row + half_correlation_width + 1)
        max_img_col == Min2(shape[2], col + half_correlation_width + 1)
        min_img_row == Max2(0, row - half_correlation_width)
        min_img_col == Max2(0, col - half_correlation_width)
    IN  [row |-> row, col |-> col,
         min_img_row |-> min_img_row, max_img_row |-> max_img_row,
         min_img_col |-> min_img_col, max_img_col |-> max_img_col,
         min_knl_row |-> half_correlation_width - (row - min_img_row),
         min_knl_col |-> half_correlation_width - (col - min_img_col),
         max_knl_row |-> half_correlation_width + (max_img_row - row),
         max_knl_col |-> half_correlation_width + (max_img_col - col)]

\* the window of adjust_with_correlation: image rows and columns
\* [min_img_row, max_img_row) x [min_img_col, max_img_col) and the first
\* kernel row and column of the matching kernel sub-window
CorrectionWindow(shape, correlation_width, max_idx) ==
    LET img_height == shape[1]
        img_width == shape[2]
        half_correlation_width == correlation_width \div 2
        half_img_width == img_width \div 2
        half_img_height == img_height \div 2
        rc == idx2coord(max_idx, img_width)
        row == rc[1]
        col == rc[2]
        row_idx == row \div half_img_height
        col_idx == col \div half_img_width
        up_lim == row_idx * half_img_height
        left_lim == col_idx * half_img_width
        down_lim == (row_idx + 1) * half_img_height
        right_lim == (col_idx + 1) * half_img_width
        max_img_row == Min2(down_lim - 1, row + half_correlation_width + 1)
        max_img_col == Min2(right_lim - 1, col + half_correlation_width + 1)
        min_img_row == Max2(up_lim, row - half_correlation_width)
        min_img_col == Max2(left_lim, col - half_correlation_width)
        max_img_row_diff == max_img_row - row
        max_img_col_diff == max_img_col - col
        min_img_row_diff == row - min_img_row
        min_img_col_diff == col - min_img_col
    IN  [row |-> row, col |-> col,
         min_img_row |-> min_img_row, max_img_row |-> max_img_row,
         min_img_col |-> min_img_col, max_img_col |-> max_img_col,
         min_knl_row |-> half_correlation_width - min_img_row_diff,
         min_knl_col |-> half_correlation_width - min_img_col_diff,
         max_knl_row |-> half_correlation_width + max_img_row_diff,
         max_knl_col |-> half_correlation_width + max_img_col_diff]

\* faulty variant of MarkVisited: the source cell is left as it is
MarkVisitedSkipped(img, row, col) == img

\* line 234: img[row, col] -= numpy.inf
MarkVisited(img, row, col) == [img EXCEPT ![row][col] = FSub(@, PosInf)]

\* lines 224-226 and 228-230: numpy.where over the window gives positions
\* relative to the window; img[indices] then addresses the whole image with
\* them.  The addressed cells are set to 0 and then decreased by inf.
Sanitize(img, w, bad) ==
    LET indices == {ij \in (0 .. (w.max_img_row - w.min_img_row - 1))
                            \X (0 .. (w.max_img_col - w.min_img_col - 1)) :
                       FEq(img[w.min_img_row + ij[1]][w.min_img_col + ij[2]], bad)}
    IN  IF indices = {} THEN img
        ELSE [r \in DOMAIN img |-> [c \in DOMAIN img[r] |->
                IF <<r, c>> \in indices THEN FSub(Fin(0), PosInf) ELSE img[r][c]]]

\* faulty variant of SubtractCorrelation: the weighted kernel is added
SubtractCorrelationAdds(img, correlation, w, a_max_val) ==
    [r \in DOMAIN img |-> [c \in DOMAIN img[r] |->
        IF /\ w.min_img_row <= r /\ r < w.max_img_row
           /\ w.min_img_col <= c /\ c < w.max_img_col
        THEN FSub(img[r][c],
                  FMul(FSub(Fin(0), a_max_val),
                       correlation[w.min_knl_row + (r - w.min_img_row)]
                                  [w.min_knl_col + (c - w.min_img_col)]))
        ELSE img[r][c]]]

\* lines 219-221: img[window] -= max_val * correlation[kernel window]
SubtractCorrelation(img, correlation, w, a_max_val) ==
    [r \in DOMAIN img |-> [c \in DOMAIN img[r] |->
        IF /\ w.min_img_row <= r /\ r < w.max_img_row
           /\ w.min_img_col <= c /\ c < w.max_img_col
        THEN FSub(img[r][c],
                  FMul(a_max_val, correlation[w.min_knl_row + (r - w.min_img_row)]
                                             [w.min_knl_col + (c - w.min_img_col)]))
        ELSE img[r][c]]]

\* faulty variant of adjust_with_correlation: the value of the spike is read
\* from the tile (its current maximum) when the call is made
adjust_with_correlation_live_max(img, shape, correlation, max_idx, a_max_val, is_max_val_layer) ==
    LET correlation_width == Cardinality(DOMAIN correlation)
        w == CorrectionWindow(shape, correlation_width, max_idx)
        live == unravel_index(argmax(img, shape), shape)
        img1 == SubtractCorrelation(img, correlation, w, img[live[1]][live[2]])
        img2 == Sanitize(img1, w, PosInf)
        img3 == Sanitize(img2, w, NaN)
    IN  IF is_max_val_layer THEN MarkVisited(img3, w.row, w.col) ELSE img3

adjust_with_correlation(img, shape, correlation, max_idx, a_max_val, is_max_val_layer) ==
    LET correlation_width == Cardinality(DOMAIN correlation)
        w == CorrectionWindow(shape, correlation_width, max_idx)
        img1 == SubtractCorrelation(img, correlation, w, a_max_val)
        img2 == Sanitize(img1, w, PosInf)
        img3 == Sanitize(img2, w, NaN)
    IN  IF is_max_val_layer THEN MarkVisited(img3, w.row, w.col) ELSE img3

\* ------------------------------------------------------------ inputs
CorrWidth == 2 * HalfCorr + 1

\* The correlation kernels are supplied by the Correlation collaborator.
\* Entry (r, c) of the kernel of layers (i, j), for each family of kernels:
\*   zero  : no cross-talk
\*   delta : self-correlation 1 at the centre, everything else 0
\*   ramp  : positive entries, all different (r * width + c + 1)
\*   neg   : every entry -1
CorrelationFamilies == {"zero", "delta", "ramp", "neg"}

\* The runs that are modelled.  A run with a smaller spikes_per_unit is a
\* prefix of the run with spikes_per_unit = 1 on the same maps and kernels,
\* and a run with a larger one continues it into the sentinel: every
\* family of kernels runs with spikes_per_unit = 1, and one family with
\* every spikes_per_unit of 0, 1/SpuDen, ..., 1 and with 2 (which is not
\* in [0, 1]).
SpikesPerUnitChoices == (0 .. SpuDen) \cup {2 * SpuDen}

Scenarios ==
    (CorrelationFamilies \X {SpuDen}) \cup ({"ramp"} \X SpikesPerUnitChoices)

CorrelationEntry(family, i, j, r, c) ==
    CASE family = "zero" -> 0
      [] family = "delta" -> IF i = j /\ r = HalfCorr /\ c = HalfCorr THEN 1 ELSE 0
      [] family = "ramp" -> r * CorrWidth + c + 1
      [] family = "neg" -> -1

Correlation(family, i, j) ==
    [r \in 0 .. (CorrWidth - 1) |-> [c \in 0 .. (CorrWidth - 1) |->
        Fin(CorrelationEntry(family, i, j, r, c))]]

\* the response maps: every slot names a cell (or none, 0) and gives it a
\* value of MapValues; all other cells are zero
NumCells == NumImages * Height * Width

ImagesOf(pos, val) ==
    [t \in 0 .. (NumImages - 1) |-> [r \in Rows(img_shape) |-> [c \in Cols(img_shape) |->
        LET id == t * Height * Width + r * Width + c + 1
            hits == {n \in DOMAIN pos : pos[n] = id}
        IN  IF hits = {} THEN Fin(0) ELSE Fin(val[SetMin(hits)])]]]

\* ------------------------------------------------------------- state
VARIABLES
    spike_images,      \* the four response maps (input)
    correlations,      \* the family of correlation kernels (input)
    spikes_per_unit,   \* numerator of spikes_per_unit, over SpuDen (input)
    pc,                \* "start", "loop", "adjust", "returned", "raised"
    total_spikes,
    max_cycles,
    big_image,
    count,
    ordered_spikes,
    max_coords,
    max_val,
    single_coords,
    cell_type,
    overlap_cell_type,
    result,            \* the value focal has returned (line 142)
    stderr             \* what has been written to sys.stderr (line 109)

vars == <<spike_images, correlations, spikes_per_unit, pc, total_spikes, max_cycles,
          big_image, count, ordered_spikes, max_coords, max_val, single_coords,
          cell_type, overlap_cell_type, result, stderr>>

inputs == <<spike_images, correlations, spikes_per_unit>>
locals == <<max_coords, max_val, single_coords, cell_type, overlap_cell_type>>
outputs == <<result, stderr>>

\* numpy.sum(spike_images[i] != 0) summed over the layers
CountNonzero(images) ==
    Cardinality({trc \in (0 .. (NumImages - 1)) \X Rows(img_shape) \X Cols(img_shape) :
                    ~FEq(images[trc[1]][trc[2]][trc[3]], Fin(0))})

\* faulty variant of ImagesAfterTileBuild: the sentinel is written into the
\* maps themselves (no copy)
ImagesAfterTileBuildInPlace(images) ==
    [t \in DOMAIN images |-> [r \in DOMAIN images[t] |-> [c \in DOMAIN images[t][r] |->
        IF FEq(images[t][r][c], Fin(0)) THEN NegInf ELSE images[t][r][c]]]]

\* lines 90-91: the sentinel is written into tmp_img, a copy of the map, so
\* the maps of the caller are what they were
ImagesAfterTileBuild(images) == images

\* faulty variant of BuildBigImage: zero cells are copied as they are
BuildBigImageKeepsZeros(images) ==
    [r \in Rows(big_shape) |-> [c \in Cols(big_shape) |->
        images[(r \div Height) * 2 + (c \div Width)][r % Height][c % Width]]]

\* lines 84-92: the composite tile, zero cells replaced by -inf
BuildBigImage(images) ==
    [r \in Rows(big_shape) |-> [c \in Cols(big_shape) |->
        LET t == CHOOSE n \in 0 .. (NumImages - 1) :
                    /\ big_coords[n + 1][1] <= r /\ r < big_coords[n + 1][1] + Height
                    /\ big_coords[n + 1][2] <= c /\ c < big_coords[n + 1][2] + Width
            v == images[t][r - big_coords[t + 1][1]][c - big_coords[t + 1][2]]
        IN  IF FEq(v, Fin(0)) THEN NegInf ELSE v]]

Init ==
    /\ \E pos \in [NonzeroSlots -> 0 .. NumCells], val \in [NonzeroSlots -> MapValues] :
          spike_images = ImagesOf(pos, val)
    /\ \E scenario \in Scenarios :
          /\ correlations = scenario[1]
          /\ spikes_per_unit = scenario[2]
    /\ pc = "start"
    /\ total_spikes = 0
    /\ max_cycles = 0
    /\ big_image = <<>>
    /\ count = 0
    /\ ordered_spikes = <<>>
    /\ max_coords = <<0, 0>>
    /\ max_val = Fin(0)
    /\ single_coords = <<0, 0>>
    /\ cell_type = 0
    /\ overlap_cell_type = 0
    /\ result = <<>>
    /\ stderr = <<>>

\* lines 67-92: count the nonzero cells, reduce to the budget, build the tile
\* (cell_type is the loop variable of lines 88-92)
Setup ==
    /\ pc = "start"
    /\ \E nonzero \in {CountNonzero(spike_images)} :
          /\ total_spikes' = nonzero
          /\ max_cycles' = TruncDiv(spikes_per_unit * nonzero, SpuDen)
    /\ big_image' = BuildBigImage(spike_images)
    /\ cell_type' = NumImages - 1
    /\ pc' = "loop"
    /\ spike_images' = ImagesAfterTileBuild(spike_images)
    /\ UNCHANGED <<correlations, spikes_per_unit, count, ordered_spikes, max_coords,
                   max_val, single_coords, overlap_cell_type, outputs>>

\* line 98: percent = (count*100.)/float(total_spikes-1) raises
\* ZeroDivisionError when total_spikes is 1
RaiseZeroDivision ==
    /\ pc = "loop"
    /\ count < max_cycles
    /\ total_spikes - 1 = 0
    /\ pc' = "raised"
    /\ UNCHANGED <<inputs, total_spikes, max_cycles, big_image, count, ordered_spikes, locals,
                   outputs>>

\* lines 101-110: the maximum is infinite: write to stderr, break, then
\* return ordered_spikes (line 142)
SelectBreak ==
    /\ pc = "loop"
    /\ count < max_cycles
    /\ total_spikes - 1 # 0
    /\ \E max_idx \in {argmax(big_image, big_shape)} :
       LET coords == unravel_index(max_idx, big_shape)
       IN  /\ WrongMaxValue(big_image[coords[1]][coords[2]])
           /\ max_coords' = coords
           /\ max_val' = big_image[coords[1]][coords[2]]
    /\ stderr' = Append(stderr, "Wrong max value in FoCal!")
    /\ result' = ordered_spikes
    /\ pc' = "returned"
    /\ UNCHANGED <<inputs, total_spikes, max_cycles, big_image, count, ordered_spikes,
                   single_coords, cell_type, overlap_cell_type>>

\* lines 101-124: select the maximum and append its spike
SelectEmit ==
    /\ pc = "loop"
    /\ count < max_cycles
    /\ total_spikes - 1 # 0
    /\ \E max_idx \in {argmax(big_image, big_shape)} :
       LET coords == unravel_index(max_idx, big_shape)
           val == big_image[coords[1]][coords[2]]
           single == IF coords[1] < Height /\ coords[2] < Width
                     THEN coords
                     ELSE global_to_single_coords(coords, img_shape)
           local_idx == single[1] * Width + single[2]
           type == cell_type_from_global_coords(coords, img_shape)
       IN  /\ ~WrongMaxValue(val)
           /\ max_coords' = coords
           /\ max_val' = val
           /\ single_coords' = single
           /\ cell_type' = type
           /\ ordered_spikes' = Append(ordered_spikes, <<local_idx, val, type>>)
    /\ overlap_cell_type' = 0
    /\ pc' = "adjust"
    /\ UNCHANGED <<inputs, total_spikes, max_cycles, big_image, count, outputs>>

\* lines 129-139: the body of the correction loop for the layer
\* an_overlap_cell_type, applied to the tile img
CorrectOverlap(img, an_overlap_cell_type) ==
    LET overlap_idx == local_coords_to_global_idx(single_coords, an_overlap_cell_type,
                                                  img_shape, big_shape)
        is_max_val_layer == an_overlap_cell_type = cell_type
    IN  adjust_with_correlation(img, big_shape,
                                Correlation(correlations, cell_type, an_overlap_cell_type),
                                overlap_idx, max_val, is_max_val_layer)

\* lines 127-139: one pass of the correction loop, for layer overlap_cell_type
Adjust ==
    /\ pc = "adjust"
    /\ big_image' = CorrectOverlap(big_image, overlap_cell_type)
    /\ IF overlap_cell_type + 1 < NumImages
       THEN /\ overlap_cell_type' = overlap_cell_type + 1
            /\ UNCHANGED <<pc, count>>
       ELSE /\ pc' = "loop"
            /\ count' = count + 1
            /\ UNCHANGED overlap_cell_type
    /\ UNCHANGED <<inputs, total_spikes, max_cycles, ordered_spikes,
                   max_coords, max_val, single_coords, cell_type, outputs>>

\* line 142: the loop is over, return ordered_spikes
Return ==
    /\ pc = "loop"
    /\ count >= max_cycles
    /\ result' = ordered_spikes
    /\ pc' = "returned"
    /\ UNCHANGED <<inputs, total_spikes, max_cycles, big_image, count, ordered_spikes, locals,
                   stderr>>

Next ==
    \/ Setup
    \/ RaiseZeroDivision
    \/ SelectBreak
    \/ SelectEmit
    \/ Adjust
    \/ Return

Spec == Init /\ [][Next]_vars

\* ------------------------------------------------------- claims: helpers
ValidSpikesPerUnit == 0 <= spikes_per_unit /\ spikes_per_unit <= SpuDen

\* the cells (channel, local_index) of the original maps that are not zero
NonzeroCells ==
    {<<t, r * Width + c>> : <<t, r, c>> \in
        {trc \in (0 .. (NumImages - 1)) \X Rows(img_shape) \X Cols(img_shape) :
            ~FEq(spike_images[trc[1]][trc[2]][trc[3]], Fin(0))}}

\* floor(spikes_per_unit * totalNonzero)
Budget == (spikes_per_unit * Cardinality(NonzeroCells)) \div SpuDen

\* the composite-tile cell of a spike [local_idx, value, channel]
SpikeRow(s) == (s[3] \div 2) * Height + (s[1] \div Width)
SpikeCol(s) == (s[3] % 2) * Width + (s[1] % Width)

QuadrantOf(r, c) == (r \div Height) * 2 + (c \div Width)

TileCells == Rows(big_shape) \X Cols(big_shape)

NonnegativeFamilies ==
    {f \in CorrelationFamilies :
        \A i, j \in 0 .. (NumImages - 1) : \A r, c \in 0 .. (CorrWidth - 1) :
            CorrelationEntry(f, i, j, r, c) >= 0}

\* ------------------------------------------------------------------ C1
\* C1: for a spikes_per_unit in [0, 1], at every point of the run the number
\* of emitted spikes is at most budget = floor(spikes_per_unit * totalNonzero)
\* and budget is at most totalNonzero, the number of nonzero map cells.
C1_SpikesWithinBudget ==
    ValidSpikesPerUnit =>
        /\ Len(ordered_spikes) <= Budget
        /\ Budget <= Cardinality(NonzeroCells)

\* a finished run whose budget floor(2/3 * 2) = 1 was rounded down and used
C1_Witness ==
    /\ pc = "returned"
    /\ ValidSpikesPerUnit
    /\ (spikes_per_unit * Cardinality(NonzeroCells)) % SpuDen # 0
    /\ Len(ordered_spikes) = Budget
    /\ Budget = 1

\* ------------------------------------------------------------------ C2
\* C2: no two emitted spikes of one run have the same (channel, local_index).
C2_NoDuplicateSpikes ==
    \A i, j \in 1 .. Len(ordered_spikes) :
        i < j => <<ordered_spikes[i][3], ordered_spikes[i][1]>>
                    # <<ordered_spikes[j][3], ordered_spikes[j][1]>>

\* two spikes were emitted although every correction raised the other cells
C2_Witness ==
    /\ Len(ordered_spikes) = 2
    /\ correlations = "neg"
    /\ pc = "loop"

\* ------------------------------------------------------------------ C3
\* C3 (as claimed): the values of the emitted spikes are non-increasing in
\* emission order, for every kernel set, negative entries included.
C3_NonIncreasing ==
    \A k \in 1 .. (Len(ordered_spikes) - 1) :
        FLe(ordered_spikes[k + 1][2], ordered_spikes[k][2])

\* C3 (amended): when no correlation kernel has a negative entry, a spike
\* that follows a spike of value >= 0 has a value that is not larger.
C3_NonIncreasingNonnegative ==
    correlations \in NonnegativeFamilies =>
        \A k \in 1 .. (Len(ordered_spikes) - 1) :
            FLe(Fin(0), ordered_spikes[k][2]) =>
                FLe(ordered_spikes[k + 1][2], ordered_spikes[k][2])

\* a second spike whose cell was lowered below zero by the first correction
C3_Witness ==
    /\ correlations = "ramp"
    /\ Len(ordered_spikes) = 2
    /\ ordered_spikes[1][2].v > 0
    /\ ordered_spikes[2][2].v < 0

\* ------------------------------------------------------------------ C4
\* C4: a tile cell that holds -inf holds it in every later state, and a
\* spike is never emitted from a cell that holds -inf nor from a cell
\* whose original response was zero.
C4_MonotonicExhaustion ==
    [][/\ pc # "start" =>
            \A rc \in TileCells :
                big_image[rc[1]][rc[2]] = NegInf => big_image'[rc[1]][rc[2]] = NegInf
       /\ Len(ordered_spikes') > Len(ordered_spikes) =>
            LET s == ordered_spikes'[Len(ordered_spikes')]
            IN  /\ big_image[SpikeRow(s)][SpikeCol(s)] # NegInf
                /\ <<s[3], s[1]>> \in NonzeroCells]_vars

\* after two spikes and their corrections: both source cells are exhausted
C4_Witness ==
    /\ pc = "loop"
    /\ count = 2
    /\ correlations = "ramp"
    /\ \A k \in 1 .. 2 :
          big_image[SpikeRow(ordered_spikes[k])][SpikeCol(ordered_spikes[k])] = NegInf

\* ------------------------------------------------------------------ C5
\* C5: when the four corrections for a spike have been applied, the tile
\* cell the spike was drawn from holds -inf; with the self-correlation
\* kernel 1 at its centre and 0 elsewhere and all-zero cross kernels, no
\* correction changes any other tile cell.
C5_SourceCellExcluded ==
    [][/\ pc = "adjust" /\ pc' = "loop" =>
            big_image'[max_coords[1]][max_coords[2]] = NegInf
       /\ pc = "adjust" /\ correlations = "delta" =>
            \A rc \in TileCells :
                rc # max_coords => big_image'[rc[1]][rc[2]] = big_image[rc[1]][rc[2]]]_vars

\* a spike from the last row and last column of its quadrant, all four
\* corrections applied
C5_Witness ==
    /\ pc = "loop"
    /\ count >= 1
    /\ correlations = "delta"
    /\ single_coords = <<Height - 1, Width - 1>>
    /\ big_image[max_coords[1]][max_coords[2]] = NegInf

\* ------------------------------------------------------------------ C6
\* C6: with spikes_per_unit = 1 the run returns a sequence that contains
\* every originally nonzero (channel, local_index) cell exactly once, for
\* every number of nonzero cells, exactly one included.
C6_ExhaustsEveryNonzeroCell ==
    spikes_per_unit = SpuDen /\ pc \in {"returned", "raised"} =>
        /\ pc = "returned"
        /\ {<<ordered_spikes[k][3], ordered_spikes[k][1]>> :
                k \in 1 .. Len(ordered_spikes)} = NonzeroCells
        /\ Len(ordered_spikes) = Cardinality(NonzeroCells)

\* ------------------------------------------------------------------ C7
\* C7: one call of the overlap corrector, targeted at the quadrant of
\* overlap_cell_type, leaves every tile cell outside that quadrant unchanged.
C7_BoundaryClipping ==
    [][pc = "adjust" =>
            \A rc \in TileCells :
                QuadrantOf(rc[1], rc[2]) # overlap_cell_type =>
                    big_image'[rc[1]][rc[2]] = big_image[rc[1]][rc[2]]]_vars

\* the corrector has written into quadrant 1 for a spike in the last row and
\* column of its quadrant, with a kernel larger than the quadrant
C7_Witness ==
    /\ pc = "adjust"
    /\ overlap_cell_type = 2
    /\ correlations = "ramp"
    /\ CorrWidth > Height
    /\ single_coords = <<Height - 1, Width - 1>>
    /\ \E rc \in TileCells :
          /\ QuadrantOf(rc[1], rc[2]) = 1
          /\ IsFinite(big_image[rc[1]][rc[2]])
          /\ big_image[rc[1]][rc[2]] # spike_images[1][rc[1]][rc[2] - Width]

\* ------------------------------------------------------------------ C8
\* C8: every appended spike has local_index in [0, H*W) and channel in
\* 0..3, and (channel, local_index) names the tile cell that held the
\* selected maximum: row (channel div 2)*H + local_index div W, column
\* (channel mod 2)*W + local_index mod W.
C8_SpikeNamesSelectedCell ==
    /\ \A k \in 1 .. Len(ordered_spikes) :
          /\ ordered_spikes[k][1] \in 0 .. (Height * Width - 1)
          /\ ordered_spikes[k][3] \in 0 .. 3
    /\ pc = "adjust" /\ overlap_cell_type = 0 =>
          LET s == ordered_spikes[Len(ordered_spikes)]
          IN  /\ <<SpikeRow(s), SpikeCol(s)>> = max_coords
              /\ big_image[SpikeRow(s)][SpikeCol(s)] = s[2]
              /\ \A rc \in TileCells : FLe(big_image[rc[1]][rc[2]], s[2])

\* a spike was just appended for the last cell of channel 3
C8_Witness ==
    /\ pc = "adjust"
    /\ overlap_cell_type = 0
    /\ ordered_spikes[Len(ordered_spikes)][3] = 3
    /\ ordered_spikes[Len(ordered_spikes)][1] = Height * Width - 1

\* ------------------------------------------------------------------ C9
\* C9: for every local coordinate and channel, local_coords_to_global_idx,
\* unflattened with the global row stride, is mapped back to the local
\* coordinate by global_to_single_coords and to the channel by
\* cell_type_from_global_coords; every global coordinate is the image of
\* exactly one (channel, local coordinate) pair.
GlobalCoords(t, lc) ==
    unravel_index(local_coords_to_global_idx(lc, t, img_shape, big_shape), big_shape)

RoundTripEverywhere ==
    LET Locals == Rows(img_shape) \X Cols(img_shape)
    IN  /\ \A t \in 0 .. (NumImages - 1) : \A lc \in Locals :
              /\ GlobalCoords(t, lc) \in TileCells
              /\ global_to_single_coords(GlobalCoords(t, lc), img_shape) = lc
              /\ cell_type_from_global_coords(GlobalCoords(t, lc), img_shape) = t
        /\ \A gc \in TileCells :
              Cardinality({tl \in (0 .. (NumImages - 1)) \X Locals :
                              GlobalCoords(tl[1], tl[2]) = gc}) = 1

C9_CoordinateRoundTrip ==
    /\ RoundTripEverywhere
    /\ pc = "adjust" =>
          /\ global_to_single_coords(GlobalCoords(overlap_cell_type, single_coords),
                                     img_shape) = single_coords
          /\ cell_type_from_global_coords(GlobalCoords(overlap_cell_type, single_coords),
                                          img_shape) = overlap_cell_type

\* the correction loop converts the far corner of channel 0 for channel 3
C9_Witness ==
    /\ pc = "adjust"
    /\ overlap_cell_type = 3
    /\ cell_type = 0
    /\ single_coords = <<Height - 1, Width - 1>>

\* ----------------------------------------------------------------- C10
\* C10: a spikes_per_unit outside [0, 1] is rejected before the tile is
\* built: no tile, no loop iteration, no spike.
C10_InvalidConfigurationRejected ==
    ~ValidSpikesPerUnit =>
        /\ big_image = <<>>
        /\ pc \notin {"loop", "adjust"}
        /\ count = 0
        /\ ordered_spikes = <<>>

\* ----------------------------------------------------------------- C11
\* the loop was left by the break of line 110
BrokeOff == pc = "returned" /\ count < max_cycles

\* C11: when the selected maximum is +inf, -inf or nan the loop stops without
\* appending a spike for that cell, and focal returns the spikes emitted so
\* far together with an explicit failure indicator: the returned value is
\* more than the bare list of spikes that a normal completion returns.
C11_BreakReturnsFailureIndicator ==
    BrokeOff =>
        /\ Len(ordered_spikes) = count
        /\ \A k \in 1 .. Len(ordered_spikes) : IsFinite(ordered_spikes[k][2])
        /\ result # ordered_spikes

\* ----------------------------------------------------------------- C12
\* the response of cell local_idx of channel t in the maps of the caller
OriginalValue(t, local_idx) == spike_images[t][local_idx \div Width][local_idx % Width]

\* C12: with all-zero kernels and spikes_per_unit = 1 the run returns exactly
\* the originally nonzero cells, in order of descending original value,
\* each spike with its unmodified original response as value and its own
\* channel and local_index.
C12_ZeroKernelsReturnOriginalOrder ==
    correlations = "zero" /\ spikes_per_unit = SpuDen /\ pc \in {"returned", "raised"} =>
        /\ pc = "returned"
        /\ Len(result) = Cardinality(NonzeroCells)
        /\ {<<result[k][3], result[k][1]>> : k \in 1 .. Len(result)} = NonzeroCells
        /\ \A k \in 1 .. Len(result) :
              result[k][2] = OriginalValue(result[k][3], result[k][1])
        /\ \A k \in 1 .. (Len(result) - 1) : FLe(result[k + 1][2], result[k][2])

\* ----------------------------------------------------------------- C13
\* C13: one corrector call for the channel overlap_cell_type subtracts
\* max_val * kernel[half + dr][half + dc] from every cell of the target
\* quadrant at offset (dr, dc), |dr| <= half and |dc| <= half, from the
\* spike's equivalent local position: the kernel-sized neighbourhood clipped
\* only by the quadrant, its last row, its last column and the centre cell
\* included (the centre cell of the spike's own layer is then marked visited).
C13_FullNeighbourhoodCorrected ==
    [][pc = "adjust" =>
          LET half == CorrWidth \div 2
              kernel == Correlation(correlations, cell_type, overlap_cell_type)
              top == (overlap_cell_type \div 2) * Height
              left == (overlap_cell_type % 2) * Width
          IN  \A dr \in (0 - half) .. half : \A dc \in (0 - half) .. half :
                LET lr == single_coords[1] + dr
                    lc == single_coords[2] + dc
                IN  lr \in Rows(img_shape) /\ lc \in Cols(img_shape) =>
                      LET corrected == FSub(big_image[top + lr][left + lc],
                                            FMul(max_val, kernel[half + dr][half + dc]))
                      IN  big_image'[top + lr][left + lc] =
                            IF overlap_cell_type = cell_type /\ dr = 0 /\ dc = 0
                            THEN FSub(corrected, PosInf)
                            ELSE corrected]_vars

\* ----------------------------------------------------------------- C14
\* the position of a tile cell in the row-major scan of the (2H, 2W) tile
ScanPosition(rc) == rc[1] * (2 * Width) + rc[2]

\* C14: when several tile cells hold the maximum value, the selected cell is
\* the first of them in row-major scan order of the composite tile (smallest
\* global row, then smallest global column).
C14_FirstMaximumInScanOrder ==
    (pc = "adjust" /\ overlap_cell_type = 0) \/ BrokeOff =>
        /\ big_image[max_coords[1]][max_coords[2]] = max_val
        /\ \A rc \in TileCells :
              big_image[rc[1]][rc[2]] = max_val => ScanPosition(max_coords) <= ScanPosition(rc)

\* a cell of channel 1 in global row 0 was selected although a cell of
\* channel 0 in global row 1 holds the same value
C14_Witness ==
    /\ pc = "adjust"
    /\ overlap_cell_type = 0
    /\ cell_type = 1
    /\ max_coords[1] = 0
    /\ \E c \in Cols(img_shape) : big_image[1][c] = max_val

\* ----------------------------------------------------------------- C15
\* the tile after the corrections of the layers first, first + 1, ..., 3,
\* in the order of the loop of line 127
RECURSIVE CorrectInLoopOrder(_, _)
CorrectInLoopOrder(img, first) ==
    IF first >= NumImages THEN img
    ELSE CorrectInLoopOrder(CorrectOverlap(img, first), first + 1)

\* every order of correcting the layers of remaining, starting from the
\* tile img, ends in the tile final
RECURSIVE EveryOrderYields(_, _, _)
EveryOrderYields(img, remaining, final) ==
    IF remaining = {} THEN img = final
    ELSE \A t \in remaining :
            \E corrected \in {CorrectOverlap(img, t)} :
                EveryOrderYields(corrected, remaining \ {t}, final)

\* C15: the four per-channel corrections of one emitted spike are
\* independent: applied to the tile the spike was selected from, in any
\* order, they yield the tile that the order 0, 1, 2, 3 yields.
C15_CorrectionsIndependent ==
    pc = "adjust" /\ overlap_cell_type = 0 =>
        \E sequential \in {CorrectInLoopOrder(big_image, 0)} :
            EveryOrderYields(big_image, 0 .. (NumImages - 1), sequential)

\* the corrections of a spike have changed a finite cell of another layer
\* and marked the spike's own cell
C15_Witness ==
    /\ pc = "loop"
    /\ count = 1
    /\ correlations = "ramp"
    /\ big_image[max_coords[1]][max_coords[2]] = NegInf
    /\ \E rc \in TileCells :
          /\ QuadrantOf(rc[1], rc[2]) # cell_type
          /\ IsFinite(big_image[rc[1]][rc[2]])
          /\ big_image[rc[1]][rc[2]] # BuildBigImage(spike_images)[rc[1]][rc[2]]

\* ----------------------------------------------------------------- C16
\* C16: the four input response maps are read-only to focal: no step of a
\* run, complete or terminated early, changes a cell of an input map; the
\* sentinel and the corrections are written to the composite tile only.
C16_InputMapsUnchanged ==
    [][spike_images' = spike_images]_vars

\* a finished run: both spikes' tile cells hold the sentinel while the maps
\* still hold the responses the spikes were emitted with or corrected from
C16_Witness ==
    /\ pc = "returned"
    /\ Len(result) = 2
    /\ correlations = "ramp"
    /\ \A k \in 1 .. 2 :
          /\ big_image[SpikeRow(result[k])][SpikeCol(result[k])] = NegInf
          /\ OriginalValue(result[k][3], result[k][1]) \in {Fin(v) : v \in MapValues}
    /\ \E rc \in TileCells :
          big_image[rc[1]][rc[2]] = NegInf /\ BuildBigImage(spike_images)[rc[1]][rc[2]] # NegInf

\* ----------------------------------------------------------------- C17
FiniteCells == {rc \in TileCells : IsFinite(big_image[rc[1]][rc[2]])}

\* C17: for valid inputs the sentinel-exhaustion branch is unreachable:
\* after k emitted spikes exactly totalNonzero - k tile cells are finite, the
\* loop is never left by the break, and the run returns a sequence of
\* length exactly budget.
C17_SentinelBranchUnreachable ==
    ValidSpikesPerUnit =>
        /\ pc = "loop" => Cardinality(FiniteCells) = Cardinality(NonzeroCells) - count
        /\ ~BrokeOff
        /\ pc \in {"returned", "raised"} => pc = "returned" /\ Len(result) = Budget

\* ----------------------------------------------------------------- C18
\* C18: for every valid input focal ends by returning its spike list: no
\* loop iteration raises, the divisor total_spikes - 1 of the progress
\* computation is nonzero whenever an iteration runs, one nonzero cell with
\* spikes_per_unit = 1 included.
C18_TerminatesNormally ==
    ValidSpikesPerUnit =>
        /\ pc # "raised"
        /\ pc = "loop" /\ count < max_cycles => total_spikes - 1 # 0

====
